---------------------------- MODULE Spec2Model ----------------------------
(***************************************************************************)
(* Little Blue Booth (health kiosk): the API route handlers that proxy     *)
(* Tavily search and the OpenAI realtime-session endpoint, the             *)
(* consultation page's connection, background-job, continuous-analysis     *)
(* and pause state machines, and the Session/Conversation part of the      *)
(* Prisma schema.                                                          *)
(*                                                                         *)
(* Each subsystem has its own variables and its own specification; the     *)
(* other subsystems' variables stay unchanged under it.                    *)
(***************************************************************************)
EXTENDS Integers, Sequences, FiniteSets, TLC

VARIABLES
  \* ---- POST /api/tavily-search (route.ts 21-41), one request at a time
  tvPc,          \* "idle" | "received" | "searching" | "done"
  tvRaw,         \* the request's raw body
  tvCalls,       \* the parameters of every client.search call of this request
  tvResponses,   \* every response the handler returned for this request
  tvOutcome,     \* which step failed: "none" | "json" | "schema" | "search"
  \* ---- GET /api/realtime-session (route.ts 75-140)
  rtPc,          \* "idle" | "fetching" | "done"
  rtFetches,     \* upstream session-creation requests issued by this call
  rtUpstream,    \* what the upstream fetch settled with
  rtResponses,   \* every response the handler returned for this call
  rtServed,      \* calls served so far
  \* ---- consultation page: connection state machine (part_001 167-181)
  isConsultationStarted, isConnected, isLoading,
  connEffectPending,  \* the effect's dependencies changed since it last ran
  lastCall,           \* the last connect()/disconnect() invocation, with the state it saw
  connectCalls,       \* connect() invocations so far
  attemptCurrent,     \* the attempt in flight was started in this consultation
  failedSinceStart,   \* an attempt of this consultation failed and it is still started
  retried,            \* connect() was invoked again after such a failure
  \* ---- consultation page: background jobs (part_001 131-147, 218-228, 243-289)
  queue,         \* the job queue: job id -> [status, data]
  issued,        \* job ids returned by analyzeConversation so far
  workerIds,     \* useState<string[]>
  jobStatuses,   \* data of the pollJobStatus query for the current key
  insights,      \* useState<Insight[]>
  sent,          \* every sendMessage call's instructions
  handled,       \* job ids the completed-jobs effect has met as completed with data
  \* ---- relational schema (part_002)
  kiosks, sessions, conversations, dbError,
  \* ---- consultation page: continuous analysis (part_001 186-238)
  messages,                \* the conversation's messages, oldest first
  lastAnalyzedMessageRef,  \* useRef: timestamp and content of the message last marked
  analysisDeps,            \* the dependencies the effect last ran with
  analysisTimer,           \* -1, or the length of messages the armed timeout closes over
  requestLog,              \* every analyzeConversation request: its last message, payload and state
  lastPerform,             \* the last run of performContinuousAnalysis past the empty check
  \* ---- consultation page: pause / resume (part_001 306-318)
  isPaused,
  pauseInFlight,           \* the pauseSession / resumeSession calls not yet settled
  pauseLog                 \* every pauseSession / resumeSession call, in order

tvVars == <<tvPc, tvRaw, tvCalls, tvResponses, tvOutcome>>
rtVars == <<rtPc, rtFetches, rtUpstream, rtResponses, rtServed>>
connVars == <<isConsultationStarted, isConnected, isLoading, connEffectPending,
              lastCall, connectCalls, attemptCurrent, failedSinceStart, retried>>
jobVars == <<queue, issued, workerIds, jobStatuses, insights, sent, handled>>
dbVars == <<kiosks, sessions, conversations, dbError>>
analysisVars == <<messages, lastAnalyzedMessageRef, analysisDeps, analysisTimer,
                  requestLog, lastPerform>>
pauseVars == <<isPaused, pauseInFlight, pauseLog>>
vars == <<tvVars, rtVars, connVars, jobVars, dbVars, analysisVars, pauseVars>>

Range(s) == {s[i] : i \in 1..Len(s)}

(***************************************************************************)
(* JSON values.  Each kind is a record with a field of its own, so that a  *)
(* string is never compared with a number.  An object is a function from   *)
(* its keys to values: an omitted key is not in its domain.                *)
(***************************************************************************)
Str(s) == [str |-> s]
Num(n) == [num |-> n]
Bool(b) == [bool |-> b]
Arr(a) == [arr |-> a]
Null == [null |-> TRUE]
Obj(f) == [obj |-> f]
IsStr(v) == "str" \in DOMAIN v
IsNum(v) == "num" \in DOMAIN v
IsBool(v) == "bool" \in DOMAIN v
IsArr(v) == "arr" \in DOMAIN v
IsObj(v) == "obj" \in DOMAIN v
EmptyObject == [k \in {} |-> Null]

(***************************************************************************)
(* TavilySearchSchema (route.ts 6-19)                                      *)
(***************************************************************************)
MinResults == 0
MaxResults == 20
DefaultDays == 3
DefaultMaxResults == 5

SchemaKeys ==
  {"query", "searchDepth", "topic", "days", "timeRange", "maxResults",
   "includeImages", "includeImageDescriptions", "includeAnswer",
   "includeRawContent", "includeDomains", "excludeDomains"}

\* The keys declared .optional().default(x), with x.
Defaults ==
  [searchDepth |-> Str("basic"),
   topic |-> Str("general"),
   days |-> Num(DefaultDays),
   maxResults |-> Num(DefaultMaxResults),
   includeImages |-> Bool(FALSE),
   includeImageDescriptions |-> Bool(FALSE),
   includeAnswer |-> Bool(FALSE),
   includeRawContent |-> Bool(FALSE),
   includeDomains |-> Arr(<<>>),
   excludeDomains |-> Arr(<<>>)]

\* The inner type of each key: what a supplied value must be.
FieldOk_NoUpperBound(k, v) ==
  CASE k = "query" -> IsStr(v)
    [] k = "searchDepth" -> IsStr(v) /\ v.str \in {"basic", "advanced"}
    [] k = "topic" -> IsStr(v) /\ v.str \in {"general", "news"}
    [] k = "days" -> IsNum(v)
    [] k = "timeRange" -> IsStr(v)
    [] k = "maxResults" -> IsNum(v) /\ v.num >= MinResults
    [] k \in {"includeImages", "includeImageDescriptions", "includeRawContent"} -> IsBool(v)
    [] k = "includeAnswer" -> IsBool(v) \/ IsStr(v)
    [] k \in {"includeDomains", "excludeDomains"} ->
         IsArr(v) /\ \A i \in 1..Len(v.arr) : IsStr(v.arr[i])

FieldOk(k, v) ==
  CASE k = "query" -> IsStr(v)
    [] k = "searchDepth" -> IsStr(v) /\ v.str \in {"basic", "advanced"}
    [] k = "topic" -> IsStr(v) /\ v.str \in {"general", "news"}
    [] k = "days" -> IsNum(v)
    [] k = "timeRange" -> IsStr(v)
    [] k = "maxResults" -> IsNum(v) /\ v.num >= MinResults /\ v.num <= MaxResults
    [] k \in {"includeImages", "includeImageDescriptions", "includeRawContent"} -> IsBool(v)
    [] k = "includeAnswer" -> IsBool(v) \/ IsStr(v)
    [] k \in {"includeDomains", "excludeDomains"} ->
         IsArr(v) /\ \A i \in 1..Len(v.arr) : IsStr(v.arr[i])

\* The keys of the shape whose parse of `input` raises an issue: a key that
\* is required and missing, or supplied with a value its type rejects.
SchemaIssues(input) ==
  {k \in SchemaKeys :
     IF k \in DOMAIN input THEN ~FieldOk(k, input[k]) ELSE k = "query"}

\* z.object(...).parse: not an object, or any issue, throws.
SchemaAccepts(v) == IsObj(v) /\ SchemaIssues(v.obj) = {}

\* The value parse returns for one key of the shape, given the input has
\* passed: "undefined" is returned for an omitted key without default.
ParsedField_DefaultTen(input, k) ==
  IF k \in DOMAIN input THEN <<"value", input[k]>>
  ELSE IF k = "maxResults" THEN <<"value", Num(10)>>
  ELSE IF k \in DOMAIN Defaults THEN <<"value", Defaults[k]>>
  ELSE <<"undefined">>

ParsedField(input, k) ==
  IF k \in DOMAIN input THEN <<"value", input[k]>>
  ELSE IF k \in DOMAIN Defaults THEN <<"value", Defaults[k]>>
  ELSE <<"undefined">>

\* The object parse returns: one entry per key of the shape whose parsed
\* value is not undefined; keys the shape does not declare are stripped.
TavilySearchSchemaParse(input) ==
  LET set == {k \in SchemaKeys : ParsedField(input, k)[1] = "value"}
  IN  [k \in set |-> ParsedField(input, k)[2]]

(***************************************************************************)
(* Request bodies.  A body supplies at most MaxSupplied keys, each with a  *)
(* value of the right type, of a wrong type or out of range.               *)
(***************************************************************************)
MaxSupplied == 3

FieldValues ==
  [query |-> {Str("flu"), Num(1)},
   searchDepth |-> {Str("advanced"), Str("deep")},
   topic |-> {Str("news"), Str("finance")},
   days |-> {Num(7), Str("7")},
   timeRange |-> {Str("week"), Num(1)},
   maxResults |-> {Num(MinResults - 1), Num(MinResults), Num(MaxResults),
                   Num(MaxResults + 1), Str("5")},
   includeImages |-> {Bool(TRUE), Str("yes")},
   includeImageDescriptions |-> {Bool(TRUE), Num(1)},
   includeAnswer |-> {Bool(TRUE), Str("advanced"), Num(1)},
   includeRawContent |-> {Bool(TRUE), Null},
   includeDomains |-> {Arr(<<Str("a.com")>>), Arr(<<Num(1)>>), Str("a.com")},
   excludeDomains |-> {Arr(<<Str("b.com")>>)},
   userId |-> {Str("u1")}]

BodyKeys == DOMAIN FieldValues

RECURSIVE ObjectsOver(_)
ObjectsOver(S) ==
  IF S = {} THEN {EmptyObject}
  ELSE LET k == CHOOSE x \in S : TRUE
       IN  {o @@ (k :> v) : o \in ObjectsOver(S \ {k}), v \in FieldValues[k]}

Objects ==
  UNION {ObjectsOver(S) : S \in {T \in SUBSET BodyKeys : Cardinality(T) <= MaxSupplied}}

\* What request.json() meets: text that is not JSON, JSON that is not an
\* object, or an object.
RawBodies ==
  {[kind |-> "malformed"]}
    \cup {[kind |-> "json", value |-> v] : v \in {Null, Str("flu"), Arr(<<>>)}}
    \cup {[kind |-> "json", value |-> Obj(o)] : o \in Objects}

\* What a step throws: an Error with a message, or a value that is no Error.
Thrown == {[isError |-> TRUE, message |-> "fetch failed"],
           [isError |-> TRUE, message |-> "Unauthorized"],
           [isError |-> FALSE, message |-> "n/a"]}
SearchResults == {"results-1", "results-2"}

\* route.ts 36: error instanceof Error ? error.message : 'Unknown error'
ErrorMessage(err) == IF err.isError THEN err.message ELSE "Unknown error"

\* route.ts 31-40, the catch block's response
ErrorResponse_Status400(err) ==
  [status |-> IF err.message = "ZodError" THEN 400 ELSE 500,
   body |-> [success |-> FALSE, error |-> ErrorMessage(err)]]

ErrorResponse(err) ==
  [status |-> 500, body |-> [success |-> FALSE, error |-> ErrorMessage(err)]]

\* route.ts 30
SuccessResponse(result) ==
  [status |-> 200, body |-> [success |-> TRUE, result |-> result]]

TavilyInit ==
  /\ tvPc = "idle"
  /\ tvRaw = [kind |-> "malformed"]
  /\ tvCalls = <<>>
  /\ tvResponses = <<>>
  /\ tvOutcome = "none"

\* A request arrives.
POST_Receive(raw) ==
  /\ tvPc = "idle"
  /\ tvPc' = "received"
  /\ tvRaw' = raw
  /\ tvCalls' = <<>>
  /\ tvResponses' = <<>>
  /\ tvOutcome' = "none"
  /\ UNCHANGED <<rtVars, connVars, jobVars, dbVars, analysisVars, pauseVars>>

\* route.ts 22-28 and, on a throw, 31-40: request.json(), the schema's parse
\* and the call of client.search.
POST_Handle ==
  /\ tvPc = "received"
  /\ UNCHANGED tvRaw
  /\ IF tvRaw.kind = "malformed"
       THEN /\ tvResponses' = Append(tvResponses,
                 ErrorResponse([isError |-> TRUE, message |-> "SyntaxError"]))
            /\ tvOutcome' = "json"
            /\ tvPc' = "done"
            /\ UNCHANGED tvCalls
     ELSE IF ~SchemaAccepts(tvRaw.value)
       THEN /\ tvResponses' = Append(tvResponses,
                 ErrorResponse([isError |-> TRUE, message |-> "ZodError"]))
            /\ tvOutcome' = "schema"
            /\ tvPc' = "done"
            /\ UNCHANGED tvCalls
     ELSE /\ tvCalls' = Append(tvCalls, TavilySearchSchemaParse(tvRaw.value.obj))
          /\ tvPc' = "searching"
          /\ UNCHANGED <<tvResponses, tvOutcome>>
  /\ UNCHANGED <<rtVars, connVars, jobVars, dbVars, analysisVars, pauseVars>>

\* route.ts 28-30: the search resolves.
POST_SearchResolves(result) ==
  /\ tvPc = "searching"
  /\ tvResponses' = Append(tvResponses, SuccessResponse(result))
  /\ tvPc' = "done"
  /\ UNCHANGED <<tvRaw, tvCalls, tvOutcome>>
  /\ UNCHANGED <<rtVars, connVars, jobVars, dbVars, analysisVars, pauseVars>>

\* route.ts 28, 31-40: the search rejects.
POST_SearchRejects(err) ==
  /\ tvPc = "searching"
  /\ tvResponses' = Append(tvResponses, ErrorResponse(err))
  /\ tvOutcome' = "search"
  /\ tvPc' = "done"
  /\ UNCHANGED <<tvRaw, tvCalls>>
  /\ UNCHANGED <<rtVars, connVars, jobVars, dbVars, analysisVars, pauseVars>>

\* The handler has returned; the next request meets a fresh invocation.
POST_Return ==
  /\ tvPc = "done"
  /\ tvPc' = "idle"
  /\ tvRaw' = [kind |-> "malformed"]
  /\ tvCalls' = <<>>
  /\ tvResponses' = <<>>
  /\ tvOutcome' = "none"
  /\ UNCHANGED <<rtVars, connVars, jobVars, dbVars, analysisVars, pauseVars>>

TavilyNext ==
  \/ tvPc = "idle" /\ \E raw \in RawBodies : POST_Receive(raw)
  \/ POST_Return
  \/ POST_Handle
  \/ \E result \in SearchResults : POST_SearchResolves(result)
  \/ \E err \in Thrown : POST_SearchRejects(err)

(***************************************************************************)
(* GET /api/realtime-session (route.ts 75-140)                             *)
(***************************************************************************)
MaxCalls == 3

\* Response.ok: the status is in the range 200-299.
UpstreamOk_Below500(status) == status < 500

UpstreamOk(status) == status >= 200 /\ status <= 299

\* A response body's text: JSON text of a value, written compactly (ws = 0)
\* or with white space (ws = 1), or text that is not JSON.
JsonText(value, ws) == [json |-> TRUE, value |-> value, ws |-> ws]
NotJson == [json |-> FALSE, value |-> "n/a", ws |-> 0]
UpstreamTexts ==
  {JsonText(v, ws) : v \in {"session-A", "session-B", "error-body"}, ws \in {0, 1}}
    \cup {NotJson}
UpstreamStatuses == {200, 201, 400, 401, 429, 500}

\* Response.json(): the parsed value, or a SyntaxError.
JsonParse(text) ==
  IF text.json THEN [ok |-> TRUE, value |-> text.value]
  ELSE [ok |-> FALSE, value |-> "n/a"]

\* JSON.stringify, as NextResponse.json applies it: the compact text.
JsonStringify(value) == JsonText(value, 0)

\* What the fetch settles with: a rejection, or a response.
UpstreamOutcomes ==
  {[kind |-> "threw", status |-> 0, text |-> NotJson]}
    \cup {[kind |-> "response", status |-> s, text |-> t] :
            s \in UpstreamStatuses, t \in UpstreamTexts}

\* The message of the error the try block throws on `up` (route.ts 78, 113,
\* 120, 123), or "none" when it throws nothing.
SessionFailure(up) ==
  IF up.kind = "threw" THEN [message |-> "fetch failed", status |-> 0, data |-> "n/a"]
  ELSE IF ~JsonParse(up.text).ok
    THEN [message |-> "SyntaxError", status |-> 0, data |-> "n/a"]
  ELSE IF ~UpstreamOk(up.status)
    THEN [message |-> "OpenAI API error", status |-> up.status,
          data |-> JsonStringify(JsonParse(up.text).value)]
  ELSE [message |-> "none", status |-> 0, data |-> "n/a"]

\* route.ts 123-139: the response for what the fetch settled with.
SessionResponse(up) ==
  IF SessionFailure(up).message = "none"
    THEN [status |-> 200, body |-> JsonStringify(JsonParse(up.text).value)]
  ELSE [status |-> 500,
        body |-> [error |-> "Failed to create session", details |-> SessionFailure(up)]]

RealtimeInit ==
  /\ rtPc = "idle"
  /\ rtFetches = 0
  /\ rtUpstream = [kind |-> "threw", status |-> 0, text |-> NotJson]
  /\ rtResponses = <<>>
  /\ rtServed = 0

\* route.ts 76-109: the handler is called and issues its fetch.
GET_Begin ==
  /\ rtPc \in {"idle", "done"}
  /\ rtServed < MaxCalls
  /\ rtPc' = "fetching"
  /\ rtFetches' = 1
  /\ rtResponses' = <<>>
  /\ rtServed' = rtServed + 1
  /\ UNCHANGED rtUpstream
  /\ UNCHANGED <<tvVars, connVars, jobVars, dbVars, analysisVars, pauseVars>>

\* route.ts 111-139: the fetch settles and the handler responds.
GET_FetchSettles(up) ==
  /\ rtPc = "fetching"
  /\ rtUpstream' = up
  /\ rtResponses' = Append(rtResponses, SessionResponse(up))
  /\ rtPc' = "done"
  /\ UNCHANGED <<rtFetches, rtServed>>
  /\ UNCHANGED <<tvVars, connVars, jobVars, dbVars, analysisVars, pauseVars>>

RealtimeNext ==
  \/ GET_Begin
  \/ \E up \in UpstreamOutcomes : GET_FetchSettles(up)

(***************************************************************************)
(* Consultation page: connect/disconnect on consultation start/end         *)
(* (part_001 167-181), with the handlers that set its state.  The effect   *)
(* runs after a render in which one of its dependencies changed, and sees  *)
(* the state of that render.                                               *)
(***************************************************************************)
MaxConnectCalls == 3

\* part_001 171
ShouldConnect_IgnoresLoading(started, connected, loading) ==
  started /\ ~connected

ShouldConnect(started, connected, loading) ==
  started /\ ~connected /\ ~loading

\* part_001 173
ShouldDisconnect(started, connected) == ~started /\ connected

CallRecord(fn, by) ==
  [fn |-> fn, by |-> by, started |-> isConsultationStarted,
   connected |-> isConnected, loading |-> isLoading]

\* useWebRTC's connect(): an attempt starts and isLoading is set.
Connect(by) ==
  /\ isLoading' = TRUE
  /\ UNCHANGED isConnected
  /\ connectCalls' = connectCalls + 1
  /\ lastCall' = CallRecord("connect", by)
  /\ retried' = (retried \/ failedSinceStart)

\* useWebRTC's disconnect(): the connection is closed.
Disconnect(by) ==
  /\ isConnected' = FALSE
  /\ UNCHANGED <<isLoading, connectCalls, retried>>
  /\ lastCall' = CallRecord("disconnect", by)

ConnectionInit ==
  /\ isConsultationStarted = FALSE
  /\ isConnected = FALSE
  /\ isLoading = FALSE
  /\ connEffectPending = TRUE
  /\ lastCall = [fn |-> "none", by |-> "none", started |-> FALSE,
                 connected |-> FALSE, loading |-> FALSE]
  /\ connectCalls = 0
  /\ attemptCurrent = FALSE
  /\ failedSinceStart = FALSE
  /\ retried = FALSE

\* part_001 112: onSessionCreated
OnSessionCreated ==
  /\ ~isConsultationStarted
  /\ isConsultationStarted' = TRUE
  /\ connEffectPending' = TRUE
  /\ UNCHANGED <<isConnected, isLoading, lastCall, connectCalls, attemptCurrent,
                 failedSinceStart, retried>>
  /\ UNCHANGED <<tvVars, rtVars, jobVars, dbVars, analysisVars, pauseVars>>

\* part_001 113: onError
OnSessionError ==
  /\ isConsultationStarted
  /\ isConsultationStarted' = FALSE
  /\ connEffectPending' = TRUE
  /\ attemptCurrent' = FALSE
  /\ failedSinceStart' = FALSE
  /\ UNCHANGED <<isConnected, isLoading, lastCall, connectCalls, retried>>
  /\ UNCHANGED <<tvVars, rtVars, jobVars, dbVars, analysisVars, pauseVars>>

\* part_001 300-304
HandleEndConsultation ==
  /\ isConsultationStarted
  /\ isConsultationStarted' = FALSE
  /\ Disconnect("handler")
  /\ connEffectPending' = TRUE
  /\ attemptCurrent' = FALSE
  /\ failedSinceStart' = FALSE
  /\ UNCHANGED <<tvVars, rtVars, jobVars, dbVars, analysisVars, pauseVars>>

\* part_001 168-181
ConnectionEffect ==
  /\ connEffectPending
  /\ connectCalls < MaxConnectCalls
  /\ UNCHANGED <<isConsultationStarted, failedSinceStart>>
  /\ IF ShouldConnect(isConsultationStarted, isConnected, isLoading)
       THEN /\ Connect("effect")
            /\ attemptCurrent' = TRUE
            /\ connEffectPending' = TRUE
     ELSE IF ShouldDisconnect(isConsultationStarted, isConnected)
       THEN /\ Disconnect("effect")
            /\ connEffectPending' = TRUE
            /\ UNCHANGED attemptCurrent
     ELSE /\ connEffectPending' = FALSE
          /\ UNCHANGED <<isConnected, isLoading, lastCall, connectCalls,
                         attemptCurrent, retried>>
  /\ UNCHANGED <<tvVars, rtVars, jobVars, dbVars, analysisVars, pauseVars>>

\* useWebRTC: the attempt in flight succeeds.
ConnectResolves ==
  /\ isLoading
  /\ isLoading' = FALSE
  /\ isConnected' = TRUE
  /\ connEffectPending' = TRUE
  /\ UNCHANGED <<isConsultationStarted, lastCall, connectCalls, attemptCurrent,
                 failedSinceStart, retried>>
  /\ UNCHANGED <<tvVars, rtVars, jobVars, dbVars, analysisVars, pauseVars>>

\* useWebRTC: the attempt in flight fails.
ConnectRejects ==
  /\ isLoading
  /\ isLoading' = FALSE
  /\ connEffectPending' = TRUE
  /\ failedSinceStart' = (failedSinceStart \/ (isConsultationStarted /\ attemptCurrent))
  /\ UNCHANGED <<isConsultationStarted, isConnected, lastCall, connectCalls,
                 attemptCurrent, retried>>
  /\ UNCHANGED <<tvVars, rtVars, jobVars, dbVars, analysisVars, pauseVars>>

\* useWebRTC: an established connection is lost.
ConnectionDrops ==
  /\ isConnected
  /\ isConnected' = FALSE
  /\ connEffectPending' = TRUE
  /\ UNCHANGED <<isConsultationStarted, isLoading, lastCall, connectCalls,
                 attemptCurrent, failedSinceStart, retried>>
  /\ UNCHANGED <<tvVars, rtVars, jobVars, dbVars, analysisVars, pauseVars>>

ConnectionNext ==
  \/ OnSessionCreated
  \/ OnSessionError
  \/ HandleEndConsultation
  \/ ConnectionEffect
  \/ ConnectResolves
  \/ ConnectRejects
  \/ ConnectionDrops

(***************************************************************************)
(* Consultation page: background analysis jobs.  analyzeConversation       *)
(* returns the ids of the jobs it queued (part_001 131-138, 218-228),      *)
(* pollJobStatus reports the status of each id of workerIds (140-147) and  *)
(* the completed-jobs effect turns completed jobs into insights (243-289). *)
(***************************************************************************)
MaxJobs == 2
MaxNewJobs == 2

JobIds == 1..MaxJobs

\* part_001 52-61: what a job's result carries.  "processed" is
\* {processed: true, data: <string>}; the others fail the effect's test.
DataKinds == {"null", "processed", "unprocessed", "nonstring"}
TerminalStatuses == {"completed", "failed", "not_found"}

\* The string a job's analysis returns.
AnalysisText(j) == <<"analysis", j>>

Undefined == [defined |-> FALSE, list |-> <<>>]
Data(list) == [defined |-> TRUE, list |-> list]

\* part_001 133-137: the mutation's onSuccess
OnSuccess(prev, ids) == IF Len(ids) > 0 THEN prev \o ids ELSE prev

\* part_001 223-225: after the awaited mutateAsync
AfterMutateAsync(prev, ids) == IF Len(ids) > 0 THEN prev \o ids ELSE prev

\* The server's pollJobStatus: one result per requested id, in order.
PollResult(ids) ==
  [i \in 1..Len(ids) |->
     [jobId |-> ids[i], status |-> queue[ids[i]].status, data |-> queue[ids[i]].data]]

\* part_001 247-254
IsCompletedJob(js) ==
  js.status = "completed" /\ js.data # "null" /\ js.data = "processed"

CompletedJobs(list) == SelectSeq(list, IsCompletedJob)

\* part_001 265-272, one entry per completed job
RECURSIVE NewInsights(_)
NewInsights(done) ==
  IF done = <<>> THEN <<>>
  ELSE <<[id |-> Head(done).jobId, content |-> AnalysisText(Head(done).jobId)]>>
         \o NewInsights(Tail(done))

\* part_001 275-281, one sendMessage per completed job
RECURSIVE NewMessages(_)
NewMessages(done) ==
  IF done = <<>> THEN <<>>
  ELSE <<[type |-> "response.create",
          instructions |-> <<"[Background Analysis] ", AnalysisText(Head(done).jobId)>>]>>
         \o NewMessages(Tail(done))

\* part_001 285-287
RemoveCompleted(prev, done) ==
  LET keep(id) == ~\E i \in 1..Len(done) : done[i].jobId = id
  IN  SelectSeq(prev, keep)

JobsInit ==
  /\ queue = [j \in JobIds |-> [status |-> "none", data |-> "null"]]
  /\ issued = 0
  /\ workerIds = <<>>
  /\ jobStatuses = Undefined
  /\ insights = <<>>
  /\ sent = <<>>
  /\ handled = {}

\* A successful analyzeConversation request: the server queues n jobs and
\* returns their ids; onSuccess runs, then the awaiting caller resumes.
QueueJobs(n) ==
  /\ issued + n <= MaxJobs
  /\ LET ids == [i \in 1..n |-> issued + i]
         after == AfterMutateAsync(OnSuccess(workerIds, ids), ids)
     IN  /\ workerIds' = after
         /\ queue' = [j \in JobIds |->
                        IF j \in Range(ids) THEN [status |-> "waiting", data |-> "null"]
                        ELSE queue[j]]
         /\ jobStatuses' = IF after = workerIds THEN jobStatuses ELSE Undefined
  /\ issued' = issued + n
  /\ UNCHANGED <<insights, sent, handled>>

AnalyzeSucceeds(n) ==
  /\ QueueJobs(n)
  /\ UNCHANGED <<tvVars, rtVars, connVars, dbVars, analysisVars, pauseVars>>

\* The queue's worker takes a waiting job.
JobStarts(j) ==
  /\ queue[j].status = "waiting"
  /\ queue' = [queue EXCEPT ![j].status = "active"]
  /\ UNCHANGED <<issued, workerIds, jobStatuses, insights, sent, handled>>
  /\ UNCHANGED <<tvVars, rtVars, connVars, dbVars, analysisVars, pauseVars>>

\* The worker finishes a job, returning data of some kind.
JobCompletes(j, kind) ==
  /\ queue[j].status = "active"
  /\ queue' = [queue EXCEPT ![j] = [status |-> "completed", data |-> kind]]
  /\ UNCHANGED <<issued, workerIds, jobStatuses, insights, sent, handled>>
  /\ UNCHANGED <<tvVars, rtVars, connVars, dbVars, analysisVars, pauseVars>>

\* The worker fails a job.
JobFails(j) ==
  /\ queue[j].status = "active"
  /\ queue' = [queue EXCEPT ![j] = [status |-> "failed", data |-> "null"]]
  /\ UNCHANGED <<issued, workerIds, jobStatuses, insights, sent, handled>>
  /\ UNCHANGED <<tvVars, rtVars, connVars, dbVars, analysisVars, pauseVars>>

\* The queue drops a job: the server then reports it as not_found.
JobRemoved(j) ==
  /\ queue[j].status \in {"waiting", "completed", "failed"}
  /\ queue' = [queue EXCEPT ![j] = [status |-> "not_found", data |-> "null"]]
  /\ UNCHANGED <<issued, workerIds, jobStatuses, insights, sent, handled>>
  /\ UNCHANGED <<tvVars, rtVars, connVars, dbVars, analysisVars, pauseVars>>

\* part_001 141-147 and 243-289: a poll of the current workerIds resolves;
\* when its data differ from the data held, the completed-jobs effect runs,
\* and a change of workerIds changes the query's key, which has no data yet.
PollJobStatus ==
  /\ Len(workerIds) > 0
  /\ LET data == Data(PollResult(workerIds))
         done == IF data = jobStatuses THEN <<>> ELSE CompletedJobs(data.list)
         after == IF Len(done) > 0 THEN RemoveCompleted(workerIds, done) ELSE workerIds
     IN  /\ insights' = insights \o NewInsights(done)
         /\ sent' = sent \o NewMessages(done)
         /\ handled' = handled \cup {done[i].jobId : i \in 1..Len(done)}
         /\ workerIds' = after
         /\ jobStatuses' = IF after = workerIds THEN data ELSE Undefined
  /\ UNCHANGED <<queue, issued>>
  /\ UNCHANGED <<tvVars, rtVars, connVars, dbVars, analysisVars, pauseVars>>

JobsNext ==
  \/ \E n \in 0..MaxNewJobs : AnalyzeSucceeds(n)
  \/ \E j \in JobIds : JobStarts(j)
  \/ \E j \in JobIds, kind \in DataKinds : JobCompletes(j, kind)
  \/ \E j \in JobIds : JobFails(j)
  \/ \E j \in JobIds : JobRemoved(j)
  \/ PollJobStatus

(***************************************************************************)
(* Relational schema: Kiosk, Session and Conversation (part_002 23-69).    *)
(* A create is applied when the table's constraints admit the row and is   *)
(* refused, leaving the tables as they are, when they do not.              *)
(***************************************************************************)
MaxKiosks == 2
MaxSessions == 2
MaxConversations == 3

KioskIds == 1..MaxKiosks
SessionIds == 1..MaxSessions
ConversationIds == 1..MaxConversations

\* part_002 24: Kiosk.id @id
KioskInsertOk(id) == id \notin kiosks

\* part_002 36, 46: Session.id @id; kioskId references Kiosk.id
SessionInsertOk(id, kioskId) ==
  /\ \A s \in sessions : s.id # id
  /\ kioskId \in kiosks

\* part_002 62, 63, 67: Conversation.id @id; sessionId @unique, references
\* Session.id
ConversationInsertOk_NoUnique(id, sessionId) ==
  /\ \A c \in conversations : c.id # id
  /\ \E s \in sessions : s.id = sessionId

ConversationInsertOk(id, sessionId) ==
  /\ \A c \in conversations : c.id # id
  /\ \A c \in conversations : c.sessionId # sessionId
  /\ \E s \in sessions : s.id = sessionId

SchemaInit ==
  /\ kiosks = {}
  /\ sessions = {}
  /\ conversations = {}
  /\ dbError = "none"

CreateKiosk(id) ==
  /\ IF KioskInsertOk(id)
       THEN kiosks' = kiosks \cup {id} /\ dbError' = "none"
       ELSE kiosks' = kiosks /\ dbError' = "kiosk refused"
  /\ UNCHANGED <<sessions, conversations>>
  /\ UNCHANGED <<tvVars, rtVars, connVars, jobVars, analysisVars, pauseVars>>

CreateSession(id, kioskId) ==
  /\ IF SessionInsertOk(id, kioskId)
       THEN sessions' = sessions \cup {[id |-> id, kioskId |-> kioskId]}
            /\ dbError' = "none"
       ELSE sessions' = sessions /\ dbError' = "session refused"
  /\ UNCHANGED <<kiosks, conversations>>
  /\ UNCHANGED <<tvVars, rtVars, connVars, jobVars, analysisVars, pauseVars>>

CreateConversation(id, sessionId) ==
  /\ IF ConversationInsertOk(id, sessionId)
       THEN conversations' = conversations \cup {[id |-> id, sessionId |-> sessionId]}
            /\ dbError' = "none"
       ELSE conversations' = conversations /\ dbError' = "conversation refused"
  /\ UNCHANGED <<kiosks, sessions>>
  /\ UNCHANGED <<tvVars, rtVars, connVars, jobVars, analysisVars, pauseVars>>

SchemaNext ==
  \/ \E id \in KioskIds : CreateKiosk(id)
  \/ \E id \in SessionIds, kioskId \in KioskIds : CreateSession(id, kioskId)
  \/ \E id \in ConversationIds, sessionId \in SessionIds : CreateConversation(id, sessionId)

(***************************************************************************)
(* Consultation page: continuous analysis (part_001 186-238).  The effect  *)
(* arms a one-second timeout while the consultation is started and not     *)
(* paused; its cleanup clears the timeout when a dependency changes.  The  *)
(* timeout runs performContinuousAnalysis over the messages of the render  *)
(* that armed it.  The conversation context only appends messages, so the  *)
(* closure's messages are a prefix of the current ones.  The request's     *)
(* sessionId is left out: no claim is about it.                            *)
(***************************************************************************)
MaxMessages == 2

Roles == {"user", "assistant", "system"}
Timestamps == {"t1", "t2"}
BackgroundMarker == <<"[Background Analysis]">>
Contents == {<<"I have back pain">>, <<"[Background Analysis]", " ", "note">>}
\* The analysis reads the timestamp of a user message only (199, 207) and never
\* the content of a message it filters out (212-216), so the other messages
\* carry one value there.
MessageValues ==
  [role : {"user"}, content : Contents, timestamp : Timestamps]
    \cup [role : {"assistant"}, content : Contents, timestamp : {"t1"}]
    \cup [role : Roles \ {"user", "assistant"}, content : {<<"I have back pain">>},
          timestamp : {"t1"}]

\* String.prototype.includes: needle occurs in content as a contiguous run
Includes(content, needle) ==
  \E i \in 0..(Len(content) - Len(needle)) :
    SubSeq(content, i + 1, i + Len(needle)) = needle

\* part_001 153: the ref starts as null
NoRef == [null |-> TRUE]

\* part_001 199-200
AlreadyAnalyzed(ref, last) ==
  /\ ref # NoRef
  /\ ref.timestamp = last.timestamp
  /\ ref.content = last.content

\* part_001 196-201: which test, in the code's order, makes the run return
SkipReason(last, ref) ==
  IF last.role # "user" THEN "role"
  ELSE IF Includes(last.content, BackgroundMarker) THEN "marker"
  ELSE IF AlreadyAnalyzed(ref, last) THEN "analyzed"
  ELSE "none"

MarkedRef_TimestampOnly(last) == [timestamp |-> last.timestamp, content |-> <<>>]

\* part_001 206-209
MarkedRef(last) == [timestamp |-> last.timestamp, content |-> last.content]

RECURSIVE ConversationForAnalysis_NoFilter(_)
ConversationForAnalysis_NoFilter(msgs) ==
  IF msgs = <<>> THEN <<>>
  ELSE <<[role |-> Head(msgs).role, content |-> Head(msgs).content]>>
         \o ConversationForAnalysis_NoFilter(Tail(msgs))

\* part_001 212-216: filter on the role, then keep role and content
RECURSIVE ConversationForAnalysis(_)
ConversationForAnalysis(msgs) ==
  IF msgs = <<>> THEN <<>>
  ELSE (IF Head(msgs).role = "user" \/ Head(msgs).role = "assistant"
          THEN <<[role |-> Head(msgs).role, content |-> Head(msgs).content]>>
          ELSE <<>>)
         \o ConversationForAnalysis(Tail(msgs))

\* part_001 232
ShouldDebounce(started, paused) == started /\ ~paused

\* part_001 238: the dependency array.  The mutation object is a new one
\* whenever the state of a request changes.
CurrentDeps ==
  [messages |-> Len(messages),
   isConsultationStarted |-> isConsultationStarted,
   isPaused |-> isPaused,
   analyzeMutation |-> [i \in 1..Len(requestLog) |-> requestLog[i].state]]

StaleDeps == [stale |-> TRUE]

NoPerform == [index |-> 0, outcome |-> "none"]

AnalysisInit ==
  /\ messages = <<>>
  /\ lastAnalyzedMessageRef = NoRef
  /\ analysisDeps = StaleDeps
  /\ analysisTimer = -1
  /\ requestLog = <<>>
  /\ lastPerform = NoPerform

\* The conversation context appends a message.
AddMessage(m) ==
  /\ Len(messages) < MaxMessages
  /\ messages' = Append(messages, m)
  /\ UNCHANGED <<lastAnalyzedMessageRef, analysisDeps, analysisTimer, requestLog,
                 lastPerform>>
  /\ UNCHANGED <<tvVars, rtVars, connVars, jobVars, dbVars, pauseVars>>

\* part_001 238: analyzeMutation or sessionId is a new value in a render
\* although no request changed state.
DependencyChanges ==
  /\ analysisDeps # StaleDeps
  /\ analysisDeps' = StaleDeps
  /\ UNCHANGED <<messages, lastAnalyzedMessageRef, analysisTimer, requestLog,
                 lastPerform>>
  /\ UNCHANGED <<tvVars, rtVars, connVars, jobVars, dbVars, pauseVars>>

\* part_001 310, 313: isPaused is set to the other value.
SetIsPaused ==
  /\ isPaused' = ~isPaused
  /\ UNCHANGED <<pauseInFlight, pauseLog>>
  /\ UNCHANGED <<tvVars, rtVars, connVars, jobVars, dbVars, analysisVars>>

\* part_001 186, 232-238: a dependency changed: the cleanup of the last run
\* clears its timeout, then the effect runs with the current render's values.
AnalysisEffect ==
  /\ analysisDeps # CurrentDeps
  /\ analysisDeps' = CurrentDeps
  /\ analysisTimer' = IF ShouldDebounce(isConsultationStarted, isPaused)
                        THEN Len(messages) ELSE -1
  /\ UNCHANGED <<messages, lastAnalyzedMessageRef, requestLog, lastPerform>>
  /\ UNCHANGED <<tvVars, rtVars, connVars, jobVars, dbVars, pauseVars>>

\* part_001 187-222, up to the await: the timeout fires.
TimerFires ==
  /\ analysisTimer >= 0
  /\ analysisTimer' = -1
  /\ LET msgs == SubSeq(messages, 1, analysisTimer)
     IN  IF Len(msgs) = 0
           THEN UNCHANGED <<lastAnalyzedMessageRef, requestLog, lastPerform>>
         ELSE LET lastMessage == msgs[Len(msgs)]
                  reason == SkipReason(lastMessage, lastAnalyzedMessageRef)
              IN  IF reason # "none"
                    THEN /\ lastPerform' = [index |-> Len(msgs), outcome |-> reason]
                         /\ UNCHANGED <<lastAnalyzedMessageRef, requestLog>>
                  ELSE /\ lastAnalyzedMessageRef' = MarkedRef(lastMessage)
                       /\ requestLog' = Append(requestLog,
                            [index |-> Len(msgs),
                             last |-> lastMessage,
                             messages |-> ConversationForAnalysis(msgs),
                             state |-> "pending"])
                       /\ lastPerform' = [index |-> Len(msgs), outcome |-> "issued"]
  /\ UNCHANGED <<messages, analysisDeps>>
  /\ UNCHANGED <<tvVars, rtVars, connVars, jobVars, dbVars, pauseVars>>

SetState(log, i, state) == [log EXCEPT ![i].state = state]

\* part_001 132-138, 219-225: the request succeeds with n new job ids.
RequestResolves(i, n) ==
  /\ i \in 1..Len(requestLog)
  /\ requestLog[i].state = "pending"
  /\ requestLog' = SetState(requestLog, i, "success")
  /\ QueueJobs(n)
  /\ UNCHANGED <<messages, lastAnalyzedMessageRef, analysisDeps, analysisTimer,
                 lastPerform>>
  /\ UNCHANGED <<tvVars, rtVars, connVars, dbVars, pauseVars>>

\* part_001 226-228: the request fails; the catch logs it.
RequestRejects(i) ==
  /\ i \in 1..Len(requestLog)
  /\ requestLog[i].state = "pending"
  /\ requestLog' = SetState(requestLog, i, "error")
  /\ UNCHANGED <<messages, lastAnalyzedMessageRef, analysisDeps, analysisTimer,
                 lastPerform>>
  /\ UNCHANGED <<tvVars, rtVars, connVars, jobVars, dbVars, pauseVars>>

AnalysisNext ==
  \/ Len(messages) < MaxMessages /\ \E m \in MessageValues : AddMessage(m)
  \/ DependencyChanges
  \/ OnSessionCreated
  \/ OnSessionError
  \/ SetIsPaused
  \/ AnalysisEffect
  \/ TimerFires
  \/ \E i \in 1..MaxMessages, n \in 0..1 : RequestResolves(i, n)
  \/ \E i \in 1..MaxMessages : RequestRejects(i)

(***************************************************************************)
(* Consultation page: the pause button (part_001 306-318, rendered at      *)
(* 684-697 while the consultation is started and connected).  A press      *)
(* calls pauseSession or resumeSession by the isPaused of the current      *)
(* render and sets isPaused only after the awaited call has resolved.      *)
(***************************************************************************)
MaxPresses == 3

\* part_001 308-313: which call a press makes
ToggleCall(paused) == IF ~paused THEN "pause" ELSE "resume"

RemoveAt(seq, i) == SubSeq(seq, 1, i - 1) \o SubSeq(seq, i + 1, Len(seq))

PauseInit ==
  /\ isPaused = FALSE
  /\ pauseInFlight = <<>>
  /\ pauseLog = <<>>

\* part_001 306-312, up to the await: the button is pressed.
HandleTogglePause ==
  /\ isConsultationStarted
  /\ isConnected
  /\ Len(pauseLog) < MaxPresses
  /\ pauseLog' = Append(pauseLog, ToggleCall(isPaused))
  /\ pauseInFlight' = Append(pauseInFlight, ToggleCall(isPaused))
  /\ UNCHANGED isPaused
  /\ UNCHANGED <<tvVars, rtVars, connVars, jobVars, dbVars, analysisVars>>

\* part_001 310, 313: an awaited call resolves and the handler resumes.
PauseCallResolves(i) ==
  /\ i \in 1..Len(pauseInFlight)
  /\ isPaused' = (pauseInFlight[i] = "pause")
  /\ pauseInFlight' = RemoveAt(pauseInFlight, i)
  /\ UNCHANGED pauseLog
  /\ UNCHANGED <<tvVars, rtVars, connVars, jobVars, dbVars, analysisVars>>

\* part_001 315-317: an awaited call rejects; the catch logs it.
PauseCallRejects(i) ==
  /\ i \in 1..Len(pauseInFlight)
  /\ pauseInFlight' = RemoveAt(pauseInFlight, i)
  /\ UNCHANGED <<isPaused, pauseLog>>
  /\ UNCHANGED <<tvVars, rtVars, connVars, jobVars, dbVars, analysisVars>>

PauseNext ==
  \/ HandleTogglePause
  \/ \E i \in 1..MaxPresses : PauseCallResolves(i)
  \/ \E i \in 1..MaxPresses : PauseCallRejects(i)

(***************************************************************************)
(* Specifications                                                          *)
(***************************************************************************)
Init ==
  /\ TavilyInit /\ RealtimeInit /\ ConnectionInit /\ JobsInit /\ SchemaInit
  /\ AnalysisInit /\ PauseInit

SpecTavily == Init /\ [][TavilyNext]_vars
SpecRealtime == Init /\ [][RealtimeNext]_vars
SpecConnection == Init /\ [][ConnectionNext]_vars
SpecJobs == Init /\ [][JobsNext]_vars
SpecSchema == Init /\ [][SchemaNext]_vars
SpecAnalysis == Init /\ [][AnalysisNext]_vars
SpecPause == Init /\ [][ConnectionNext \/ PauseNext]_vars

\* Polling refetches every 2000 ms while workerIds is non-empty, and the
\* queue's worker keeps taking the jobs that wait and finishing the jobs it
\* has taken.
FairSpecJobs ==
  /\ SpecJobs
  /\ WF_vars(PollJobStatus)
  /\ WF_vars(\E j \in JobIds : JobStarts(j))
  /\ WF_vars(\E j \in JobIds : JobFails(j) \/ \E kind \in DataKinds : JobCompletes(j, kind))

(***************************************************************************)
(* Properties                                                              *)
(***************************************************************************)

\* C1: the Tavily POST handler answers a request with exactly one response:
\* {success: true, result} when the body parses, the schema accepts it and
\* the search resolves, and otherwise status 500 with {success: false,
\* error: <message>}; it has answered nothing before it is done.
C1_OneOfTwoResponses ==
  IF tvPc = "done"
    THEN /\ Len(tvResponses) = 1
         /\ LET r == tvResponses[1]
                allSucceed == /\ tvRaw.kind = "json"
                              /\ SchemaAccepts(tvRaw.value)
                              /\ tvOutcome # "search"
            IN  IF allSucceed
                  THEN /\ r.status = 200
                       /\ r.body.success = TRUE
                       /\ r.body.result \in SearchResults
                  ELSE /\ r.status = 500
                       /\ r.body.success = FALSE
                       /\ r.body.error \in {"SyntaxError", "ZodError", "fetch failed",
                                            "Unauthorized", "Unknown error"}
    ELSE Len(tvResponses) = 0

\* C1 witness: a request whose body failed the schema has been answered.
C1_Witness ==
  /\ tvPc = "done"
  /\ tvRaw.kind = "json"
  /\ ~SchemaAccepts(tvRaw.value)
  /\ Len(tvResponses) = 1
  /\ tvResponses[1].status = 500

\* C2: client.search is called at most once per request, and only for a body
\* that is an object with a string query, with maxResults (when supplied) a
\* number from 0 to 20 and searchDepth and topic (when supplied) in their
\* enums.
C2_SearchOnlyWithValidParams ==
  /\ Len(tvCalls) <= 1
  /\ Len(tvCalls) >= 1 =>
       /\ tvRaw.kind = "json"
       /\ IsObj(tvRaw.value)
       /\ LET b == tvRaw.value.obj
          IN  /\ "query" \in DOMAIN b
              /\ IsStr(b["query"])
              /\ "maxResults" \in DOMAIN b =>
                   IsNum(b["maxResults"]) /\ b["maxResults"].num \in 0..20
              /\ "searchDepth" \in DOMAIN b =>
                   IsStr(b["searchDepth"]) /\ b["searchDepth"].str \in {"basic", "advanced"}
              /\ "topic" \in DOMAIN b =>
                   IsStr(b["topic"]) /\ b["topic"].str \in {"general", "news"}

\* C2 witness: the search was called for a body that supplies maxResults.
C2_Witness ==
  /\ Len(tvCalls) = 1
  /\ "maxResults" \in DOMAIN tvRaw.value.obj
  /\ tvRaw.value.obj["maxResults"] = Num(20)

\* The defaults the claim lists.
ClaimedDefaults ==
  [searchDepth |-> Str("basic"), topic |-> Str("general"), days |-> Num(3),
   maxResults |-> Num(5), includeImages |-> Bool(FALSE),
   includeImageDescriptions |-> Bool(FALSE), includeAnswer |-> Bool(FALSE),
   includeRawContent |-> Bool(FALSE), includeDomains |-> Arr(<<>>),
   excludeDomains |-> Arr(<<>>)]

\* The body with each omitted defaulted key set to its default.
BodyWithDefaults(b) ==
  [k \in DOMAIN b \cup DOMAIN ClaimedDefaults |->
     IF k \in DOMAIN b THEN b[k] ELSE ClaimedDefaults[k]]

\* C3 as stated: the parameters passed to the search equal the body with
\* each omitted optional field replaced by its default.
C3_ParamsEqualBodyWithDefaults ==
  Len(tvCalls) >= 1 => tvCalls[1] = BodyWithDefaults(tvRaw.value.obj)

\* C3 amended: the parameters passed to the search equal the body with each
\* omitted optional field replaced by its default, restricted to the twelve
\* keys the schema declares: a supplied declared key is passed unchanged,
\* timeRange stays absent when omitted, and a key the schema does not
\* declare is dropped.
C3_ParamsEqualDeclaredBodyWithDefaults ==
  Len(tvCalls) >= 1 =>
    LET b == tvRaw.value.obj
        params == tvCalls[1]
        declared == {"query", "searchDepth", "topic", "days", "timeRange",
                     "maxResults", "includeImages", "includeImageDescriptions",
                     "includeAnswer", "includeRawContent", "includeDomains",
                     "excludeDomains"}
        full == BodyWithDefaults(b)
    IN  /\ DOMAIN params = DOMAIN full \cap declared
        /\ \A k \in DOMAIN params : params[k] = full[k]
        /\ "timeRange" \notin DOMAIN b => "timeRange" \notin DOMAIN params

\* C3 witness: the search was called for a body that supplies days and a key
\* the schema does not declare, and omits timeRange.
C3_Witness ==
  /\ Len(tvCalls) = 1
  /\ {"days", "userId"} \subseteq DOMAIN tvRaw.value.obj
  /\ "timeRange" \notin DOMAIN tvRaw.value.obj

\* C4: a call of the realtime-session GET handler issues exactly one
\* upstream request; an ok response with a JSON body is answered with that
\* JSON value, and a response that is not ok, or a fetch that throws, with
\* status 500 and {error: 'Failed to create session', details: <message>}.
C4_OneFetchAndItsResponse ==
  /\ rtFetches <= 1
  /\ rtPc = "done" =>
       /\ rtFetches = 1
       /\ Len(rtResponses) = 1
       /\ LET r == rtResponses[1]
              up == rtUpstream
              ok == up.kind = "response" /\ up.status \in 200..299
          IN  /\ (ok /\ up.text.json) =>
                   /\ r.status = 200
                   /\ JsonParse(r.body).ok
                   /\ JsonParse(r.body).value = up.text.value
              /\ ~ok =>
                   /\ r.status = 500
                   /\ r.body.error = "Failed to create session"
                   /\ r.body.details.message \in
                        {"fetch failed", "SyntaxError", "OpenAI API error"}
                   /\ r.body.details.message = "OpenAI API error" =>
                        r.body.details.status = up.status

\* C4 witness: the upstream answered 401 with a JSON body and the handler
\* has responded.
C4_Witness ==
  /\ rtPc = "done"
  /\ rtUpstream.kind = "response"
  /\ rtUpstream.status = 401
  /\ rtUpstream.text.json
  /\ rtResponses[1].status = 500

\* C5: connect() is invoked only where the consultation is started, the
\* connection is not established and no attempt is loading; the effect
\* invokes disconnect() only where the consultation is not started and the
\* connection is established.
C5_ConnectOnlyWhenIdle ==
  /\ lastCall.fn = "connect" =>
       lastCall.started /\ ~lastCall.connected /\ ~lastCall.loading
  /\ (lastCall.fn = "disconnect" /\ lastCall.by = "effect") =>
       ~lastCall.started /\ lastCall.connected

\* C5 witness: after a connect(), the effect has invoked disconnect().
C5_Witness ==
  /\ connectCalls >= 1
  /\ lastCall.fn = "disconnect"
  /\ lastCall.by = "effect"

\* C6 as stated: after an attempt of this consultation has failed and the
\* consultation has stayed started, connect() is not invoked again.
C6_NoRetryAfterFailure == ~retried

\* C7: every Session has at most one Conversation and every Conversation
\* references an existing Session.
C7_OneConversationPerSession ==
  /\ \A c1, c2 \in conversations : c1.sessionId = c2.sessionId => c1 = c2
  /\ \A c \in conversations : \E s \in sessions : s.id = c.sessionId

\* C7 witness: two conversations exist and a further create was refused.
C7_Witness ==
  /\ Cardinality(conversations) = 2
  /\ dbError = "conversation refused"

InsightsOf(j) == {i \in 1..Len(insights) : insights[i].id = j}
MessagesOf(j) ==
  {i \in 1..Len(sent) :
     sent[i].instructions = <<"[Background Analysis] ", AnalysisText(j)>>}

\* C8 as stated: a job polled as completed with processed data has exactly
\* one insight with its id and exactly one [Background Analysis] message and
\* is no longer in workerIds; any other job has no insight, no message and
\* is still in workerIds.
C8_OneInsightPerCompletedJob ==
  \A j \in 1..issued :
    IF j \in handled
      THEN /\ Cardinality(InsightsOf(j)) = 1
           /\ Cardinality(MessagesOf(j)) = 1
           /\ j \notin Range(workerIds)
      ELSE /\ InsightsOf(j) = {}
           /\ MessagesOf(j) = {}
           /\ j \in Range(workerIds)

\* C9 as stated: a job id in workerIds whose job is in a terminal state is
\* eventually removed from workerIds.
C9_TerminalJobsEventuallyRemoved ==
  \A j \in JobIds :
    (j \in Range(workerIds) /\ queue[j].status \in TerminalStatuses)
      ~> (j \notin Range(workerIds))

\* C10 as stated: workerIds contains no job id twice.
C10_NoDuplicateWorkerIds ==
  \A i, k \in 1..Len(workerIds) : workerIds[i] = workerIds[k] => i = k

\* C11: continuous analysis issues at most one analyzeConversation request
\* per message: no two requests were made for the same last message,
\* whatever became of the first one.
C11_OneRequestPerMessage ==
  \A i, j \in 1..Len(requestLog) :
    requestLog[i].index = requestLog[j].index => i = j

\* The request for a message failed, the effect ran again with the same last
\* message and performContinuousAnalysis returned at the ref's test.
C11_Witness ==
  /\ lastPerform.outcome = "analyzed"
  /\ \E i \in 1..Len(requestLog) :
       /\ requestLog[i].index = lastPerform.index
       /\ requestLog[i].state = "error"

\* C12: every analyzeConversation request was made for a last message of
\* role user whose content does not contain the background-analysis marker,
\* and every message it sends has role user or assistant and carries role
\* and content only.
C12_NoFeedbackIntoAnalysis ==
  \A i \in 1..Len(requestLog) :
    /\ requestLog[i].last.role = "user"
    /\ ~Includes(requestLog[i].last.content, BackgroundMarker)
    /\ \A k \in 1..Len(requestLog[i].messages) :
         /\ requestLog[i].messages[k].role \in {"user", "assistant"}
         /\ DOMAIN requestLog[i].messages[k] = {"role", "content"}

\* A request was made over a conversation that held a message of another
\* role ahead of the last one, and the request left it out.
C12_Witness ==
  \E i \in 1..Len(requestLog) :
    /\ requestLog[i].index > 1
    /\ Len(requestLog[i].messages) < requestLog[i].index

\* C13: the calls to pauseSession and resumeSession alternate, starting with
\* pauseSession.
C13_PauseResumeAlternate ==
  \A i \in 1..Len(pauseLog) :
    pauseLog[i] = IF i % 2 = 1 THEN "pause" ELSE "resume"

=============================================================================
